---- MODULE Spec2Model ----
(***************************************************************************)
(* Download orchestration of telegram-file-downloader: the coordinator     *)
(* (src/index.js, second listing, lines 261-555) and the download worker   *)
(* (src/worker.js, second listing, lines 149-379; the first listing,       *)
(* lines 1-148, is the older worker and is kept as build 1).               *)
(*                                                                         *)
(* One action is one event-loop task of one thread: a whole handler        *)
(* together with the promise continuations (microtasks) it releases.       *)
(***************************************************************************)
EXTENDS Integers, Sequences, FiniteSets, TLC

VARIABLES
    linkQueue,      \* index.js:291  const linkQueue = []
    activeWorkers,  \* index.js:290  let activeWorkers = 0
    downloads,      \* index.js:292  const downloads = new Map(): id -> unit
    units,          \* every Worker ever constructed, in construction order
    lastId,         \* the last value Date.now() returned to createWorker
    task,           \* per accepted link: queued, or the state of the promise
                    \* processQueue awaits (pending, fulfilled, rejected)
    disk,           \* the destination paths that exist
    uncaught,       \* an exception escaped a coordinator handler
    lastInput,      \* the last line the operator typed (readline 'line')
    build,          \* which worker listing runs: 1 (lines 1-148) or 2
    budget,         \* what the environment may still do (model bounds)
    rolling,        \* the cursor of the rolling traversal and its channel
    now             \* Date.now() in milliseconds; 0 in the scenarios that
                    \* keep the order of events only, and no clock

vars == <<linkQueue, activeWorkers, downloads, units, lastId, task, disk,
          uncaught, lastInput, build, budget, rolling, now>>

----------------------------------------------------------------------------
(* Program constants.                                                      *)

MAX_SIMULTANEOUS_DOWNLOADS == 3
MAX_RETRIES == 3
PROGRESS_UPDATE_INTERVAL == 500

(* Model bounds.                                                           *)

MaxLinks == 5       \* links the operator submits (pool scenarios)
MaxFaults == 5      \* transport/lookup failures and crashes (retry scenarios)
MaxChunks == 2      \* progress callbacks one stream makes
MaxCmds == 2        \* operator lines and control signals (control scenarios)
MaxIds == 4         \* message ids the rolling traversal can visit
MaxTicks == 4       \* steps of the clock (timed scenario)

Shapes == {"private", "public", "other"}

Min(a, b) == IF a < b THEN a ELSE b

----------------------------------------------------------------------------
(* The downloads Map.                                                      *)

MapSet(m, k, v) == [x \in (DOMAIN m) \cup {k} |-> IF x = k THEN v ELSE m[x]]
MapDelete(m, k) == [x \in (DOMAIN m) \ {k} |-> m[x]]
EmptyMap == [x \in {} |-> 0]

----------------------------------------------------------------------------
(* A unit: one Worker thread and the closure createWorker keeps for it.    *)

NewUnit(link, retryCount, id, onChain) ==
    [ link        |-> link,        \* workerData.link
      retryCount  |-> retryCount,  \* createWorker's parameter
      id          |-> id,          \* Date.now().toString()
      onChain     |-> onChain,     \* its promise is the one processQueue awaits
      settled     |-> FALSE,       \* resolve or reject was called on its promise
      timer       |-> TRUE,        \* the setTimeout of createWorker is pending
      phase       |-> "connecting",
      out         |-> <<>>,        \* posted to the parent, not yet handled
      inbox       |-> <<>>,        \* posted by the parent, not yet handled
      isPaused    |-> FALSE,
      isCancelled |-> FALSE,
      dsettled    |-> FALSE,       \* downloadMedia's promise is settled
      received    |-> 0,           \* chunks the stream has delivered
      downloadedSize |-> 0,        \* the callback's downloadedSize
      emitted     |-> FALSE,       \* a progress message was posted
      startTime   |-> 0,           \* worker.js:260  Date.now() at the start
      lastUpdateTime |-> 0,        \* worker.js:261  let lastUpdateTime = 0
      speed       |-> 0,           \* the speed of the last progress message
      sent        |-> 0,           \* the downloaded of that message, in parts
      spinning    |-> FALSE,       \* build 1: inside while (isPaused)
      held        |-> FALSE,       \* a callback found isPaused set, and no
                                   \* resume or cancel was handled since
      unlinkPending |-> FALSE ]    \* fs.unlink issued, not yet performed

----------------------------------------------------------------------------
(* The coordinator's state as one value, so that a handler's statements    *)
(* compose in program order.                                               *)

Coord ==
    [ linkQueue |-> linkQueue, activeWorkers |-> activeWorkers,
      downloads |-> downloads, units |-> units, lastId |-> lastId,
      task |-> task, uncaught |-> uncaught ]

Commit(c) ==
    /\ linkQueue' = c.linkQueue
    /\ activeWorkers' = c.activeWorkers
    /\ downloads' = c.downloads
    /\ units' = c.units
    /\ lastId' = c.lastId
    /\ task' = c.task
    /\ uncaught' = c.uncaught

(* Date.now() of a handler run at time t: the clock never goes back, and   *)
(* two calls in the same millisecond return the same value.                *)
Clock ==
    IF now > 0 THEN {now}
    ELSE IF budget.ties > 0 THEN {lastId, lastId + 1} ELSE {lastId + 1}

(* index.js:304-313  the synchronous part of createWorker.                 *)
createWorker(c, link, retryCount, onChain, t) ==
    [c EXCEPT !.units = Append(@, NewUnit(link, retryCount, t, onChain)),
              !.downloads = MapSet(@, t, Len(c.units) + 1),
              !.lastId = t]

(* Variants of the two operators below: a cap that is off by one and a    *)
(* queue served from its tail.  The pool properties must tell them apart   *)
(* from the program's.                                                     *)
CanDispatchLoose(q, a) == Len(q) > 0 /\ a <= MAX_SIMULTANEOUS_DOWNLOADS
LastLink(q) == q[Len(q)]

(* index.js:383  the loop condition of processQueue.                       *)
CanDispatch(q, a) == Len(q) > 0 /\ a < MAX_SIMULTANEOUS_DOWNLOADS

(* A variant of ShiftRest, below: a shift that leaves the head in place.   *)
KeepRest(q) == q

(* index.js:384  const link = linkQueue.shift()                            *)
ShiftLink(q) == Head(q)
ShiftRest(q) == Tail(q)

(* index.js:382-388  one entry into processQueue's loop, up to its await:  *)
(* it starts at most one unit and suspends on that unit's promise.         *)
processQueue(c, t) ==
    IF CanDispatch(c.linkQueue, c.activeWorkers)
    THEN LET link == ShiftLink(c.linkQueue)
             c1 == [c EXCEPT !.linkQueue = ShiftRest(@),
                             !.activeWorkers = @ + 1,
                             !.task[link] = "pending"]
         IN  createWorker(c1, link, 0, TRUE, t)
    ELSE c

(* index.js:390-394  the awaited promise has settled: the finally block    *)
(* (activeWorkers--, a nested processQueue()), then the loop's next test.  *)
ReleaseSlot(a) == a - 1

ResumeProcessQueue(c, t) ==
    LET c1 == [c EXCEPT !.activeWorkers = ReleaseSlot(@)]
        c2 == processQueue(c1, t)
    IN  processQueue(c2, t)

(* A variant of Settle, below, that acts on every call of resolve or       *)
(* reject, not only on the first.                                          *)
SettleAgain(c, u, how, t) ==
    LET c1 == [c EXCEPT !.units[u].settled = TRUE]
    IN  IF c.units[u].onChain
        THEN ResumeProcessQueue([c1 EXCEPT !.task[c.units[u].link] = how], t)
        ELSE c1

(* A variant of processLink, below, that queues a link without looking at *)
(* its shape.                                                              *)
processLinkUnchecked(c, link, shape, t) ==
    LET c1 == [c EXCEPT !.linkQueue = Append(@, link),
                        !.task = MapSet(@, link, "queued")]
    IN  IF c1.activeWorkers < MAX_SIMULTANEOUS_DOWNLOADS
        THEN processQueue(c1, t)
        ELSE c1

(* index.js:411-414  /^https?:\/\/t\.me\/c\// .test(link): of the link     *)
(* shapes only the private-channel one starts with t.me/c/.                *)
validateTelegramLink(shape) == shape = "private"

(* index.js:398-408  processLink.                                          *)
processLink(c, link, shape, t) ==
    IF ~validateTelegramLink(shape)
    THEN c
    ELSE LET c1 == [c EXCEPT !.linkQueue = Append(@, link),
                             !.task = MapSet(@, link, "queued")]
         IN  IF c1.activeWorkers < MAX_SIMULTANEOUS_DOWNLOADS
             THEN processQueue(c1, t)
             ELSE c1

(* resolve() / reject() of unit u's promise (index.js:315): the first call *)
(* settles it; when processQueue awaits it, processQueue resumes.          *)
Settle(c, u, how, t) ==
    IF c.units[u].settled
    THEN c
    ELSE LET c1 == [c EXCEPT !.units[u].settled = TRUE]
         IN  IF c.units[u].onChain
             THEN ResumeProcessQueue(
                      [c1 EXCEPT !.task[c.units[u].link] = how], t)
             ELSE c1

(* index.js:345  the retry test of the 'error' branch.                     *)
ShouldRetry(retryCount) == retryCount < MAX_RETRIES

(* A variant of OnTimeout, below: a deadline that spares a paused unit.    *)
OnTimeoutUnlessPaused(c, u, t) ==
    IF c.units[u].isPaused
    THEN [c EXCEPT !.units[u].timer = FALSE]
    ELSE Settle([c EXCEPT !.units[u].timer = FALSE,
                          !.units[u].phase = "dead",
                          !.downloads = MapDelete(@, c.units[u].id)],
                u, "rejected", t)

(* index.js:316-321  the timeout callback.                                 *)
OnTimeout(c, u, t) ==
    LET c1 == [c EXCEPT !.units[u].timer = FALSE,
                        !.units[u].phase = "dead",
                        !.downloads = MapDelete(@, c.units[u].id)]
    IN  Settle(c1, u, "rejected", t)

(* index.js:323-352  worker.on('message').                                 *)
OnMessage(c, u, m, t) ==
    LET un == c.units[u] IN
    CASE m = "progress" ->
           IF un.id \in DOMAIN c.downloads
           THEN c       \* Object.assign(download, ...), updateDownloadDisplay
           ELSE [c EXCEPT !.uncaught = TRUE]   \* Object.assign(undefined, ..)
      [] m \in {"complete", "nomedia"} ->   \* message.type === 'complete'
           Settle([c EXCEPT !.units[u].timer = FALSE,
                            !.downloads = MapDelete(@, un.id)],
                  u, "fulfilled", t)
      [] m = "error" ->
           LET c1 == [c EXCEPT !.units[u].timer = FALSE,
                               !.downloads = MapDelete(@, un.id)]
           IN  IF ShouldRetry(un.retryCount)
               THEN \* resolve(createWorker(link, stringSession, retryCount + 1))
                    LET c2 == createWorker(c1, un.link, un.retryCount + 1,
                                           un.onChain /\ ~un.settled, t)
                    IN  [c2 EXCEPT !.units[u].settled = TRUE]
               ELSE Settle(c1, u, "rejected", t)
      [] OTHER -> \* index.js:354-366  'error' and 'exit' of a crashed thread
           Settle([c EXCEPT !.units[u].timer = FALSE], u, "rejected", t)

----------------------------------------------------------------------------
(* The worker thread of unit u.                                            *)

Post(un, msgs) == [un EXCEPT !.out = @ \o msgs]

(* worker.js:264 (build 1: 64)  fs.createWriteStream(fileName): the path   *)
(* is downloaded_<file name of the message>, the same for every attempt    *)
(* at one link.                                                            *)
PathOf(un) == un.link

(* worker.js:331-368 (build 1: 113-138)  processLink up to the call of     *)
(* downloadMedia, and downloadMedia up to the start of the stream          *)
(* (worker.js:249-264).  what: the message has media / has none / the      *)
(* lookup fails (no message, or connect or invoke throws).                 *)
AfterLookup(un, what) ==
    CASE what = "media"   ->
           [un EXCEPT !.phase = "streaming", !.startTime = now]
      [] what = "nomedia" -> \* return { error: ... }, which processLink
           \* spreads into a message of type 'complete' (worker.js:363-364)
           Post([un EXCEPT !.phase = "done"], <<"nomedia">>)
      [] OTHER            -> Post([un EXCEPT !.phase = "done"], <<"error">>)

(* The stream arrives in parts of half a megabyte; downloaded, the         *)
(* argument of the progress callback, is the bytes received so far.        *)
MiB == 1024 * 1024
PartSize == MiB \div 2
Downloaded(un) == un.received * PartSize

(* Number.prototype.toFixed(2) of num / den, in hundredths; a division by  *)
(* zero yields Infinity, which prints as "Infinity" (-1 here).             *)
ToFixed2(num, den) ==
    IF den = 0 THEN 0 - 1 ELSE (200 * num + den) \div (2 * den)

(* worker.js:283-284 (build 1: 77-78)  elapsedTime in seconds and speed    *)
(* in MB/s: downloaded / elapsedTime / (1024 * 1024), measured from        *)
(* startTime.  Both terms of the quotient are divided by 1024, which a     *)
(* whole number of parts allows, to stay within 32-bit integers.           *)
Rate(bytes, ms) ==
    ToFixed2((bytes \div 1024) * 1000, ms * (MiB \div 1024))

Speed(un, currentTime) == Rate(Downloaded(un), currentTime - un.startTime)

(* worker.js:287 (build 1: 82)  currentTime - lastUpdateTime >= interval.  *)
(* Where no clock is kept the outcome of the comparison is open.           *)
Due(un) ==
    IF now = 0 THEN BOOLEAN
    ELSE {now - un.lastUpdateTime >= PROGRESS_UPDATE_INTERVAL}

(* A variant of Emits, below: every callback reports.                      *)
EmitsAlways(un, due) == TRUE

(* lastUpdateTime starts at 0, so the first callback always emits; later   *)
(* ones emit when the interval has passed (due).                           *)
Emits(un, due) == ~un.emitted \/ due

(* worker.js:290-298 (build 1: 85-92)  the message posted and              *)
(* lastUpdateTime = currentTime.  The readings are kept only where a clock *)
(* is.                                                                     *)
Stamp(un) ==
    IF now = 0 THEN [un EXCEPT !.emitted = TRUE]
    ELSE [un EXCEPT !.emitted = TRUE, !.lastUpdateTime = now,
                    !.speed = Speed(un, now), !.sent = un.received]

(* worker.js:281-299 (build 1: 75-94)  the body of the progress callback   *)
(* after the pause and cancel checks.                                      *)
ReportProgress(un, due) ==
    LET un1 == [un EXCEPT !.downloadedSize = un.received]
    IN  IF Emits(un, due)
        THEN Post(Stamp(un1), <<"progress">>)
        ELSE un1

(* worker.js:274-279  the cancel branch: file.close(), fs.unlink (not      *)
(* awaited), reject; the rejection reaches processLink's catch             *)
(* (worker.js:369-371), which posts 'error', in the same task.             *)
CancelBranch(un) ==
    LET un1 == [un EXCEPT !.unlinkPending = TRUE]
    IN  IF un.dsettled
        THEN un1
        ELSE Post([un1 EXCEPT !.dsettled = TRUE], <<"error">>)

(* worker.js:269-300  progressCallback of build 2.  While paused it        *)
(* returns a promise (a 100 ms timer) to the caller and does nothing else. *)
progressCallback2(un, due) ==
    IF un.isPaused /\ ~un.isCancelled THEN [un EXCEPT !.held = TRUE]
    ELSE IF un.isCancelled THEN CancelBranch(un)
    ELSE ReportProgress(un, due)

(* worker.js:69-95  progressCallback of build 1.  while (isPaused) never   *)
(* yields: the only code that clears isPaused is the message handler of    *)
(* the same thread.                                                        *)
progressCallback1(un, due) ==
    IF un.isPaused THEN [un EXCEPT !.spinning = TRUE, !.held = TRUE]
    ELSE ReportProgress(un, due)

progressCallback(b, un, due) ==
    IF b = 1 THEN progressCallback1(un, due) ELSE progressCallback2(un, due)

(* worker.js:301-313 and 363-364 (build 1: 98-103, 133-134)  the stream    *)
(* ended.  Build 2 posts 'complete' from file.end's callback and, when     *)
(* that resolves downloadMedia, processLink posts 'complete' again.        *)
OnStreamEnd(b, un) ==
    LET un1 == [un EXCEPT !.phase = "done", !.dsettled = TRUE]
    IN  IF b = 1 THEN Post(un1, <<"complete">>)
        ELSE IF un.dsettled THEN Post(un1, <<"complete">>)
        ELSE Post(un1, <<"complete", "complete">>)

(* worker.js:314-323 and 369-371 (build 1: 104-109, 139-141)  the stream   *)
(* failed.  Build 2 posts 'error' from fs.unlink's callback and, when that *)
(* rejects downloadMedia, processLink's catch posts 'error' again.         *)
OnStreamFail(b, un) ==
    LET un1 == [un EXCEPT !.phase = "done", !.dsettled = TRUE]
    IN  IF b = 1 THEN Post(un1, <<"error">>)
        ELSE IF un.dsettled THEN Post(un1, <<"error">>)
        ELSE Post(un1, <<"error", "error">>)

(* Variants of OnControl, below: a pause that toggles, and a resume that   *)
(* also withdraws a cancel.                                                *)
OnControlToggle(b, un, action) ==
    CASE action = "pause"  -> [un EXCEPT !.isPaused = ~@]
      [] action = "resume" -> [un EXCEPT !.isPaused = FALSE, !.held = FALSE]
      [] action = "cancel" /\ b = 2 ->
           [un EXCEPT !.isCancelled = TRUE, !.held = FALSE]
      [] OTHER -> un

OnControlResumeAll(b, un, action) ==
    CASE action = "pause"  -> [un EXCEPT !.isPaused = TRUE]
      [] action = "resume" ->
           [un EXCEPT !.isPaused = FALSE, !.held = FALSE,
                      !.isCancelled = FALSE]
      [] action = "cancel" /\ b = 2 ->
           [un EXCEPT !.isCancelled = TRUE, !.held = FALSE]
      [] OTHER -> un

(* Another variant: a resume that starts the progress reports afresh.      *)
OnControlResumeFresh(b, un, action) ==
    CASE action = "pause"  -> [un EXCEPT !.isPaused = TRUE]
      [] action = "resume" ->
           [un EXCEPT !.isPaused = FALSE, !.held = FALSE,
                      !.emitted = FALSE]
      [] action = "cancel" /\ b = 2 ->
           [un EXCEPT !.isCancelled = TRUE, !.held = FALSE]
      [] OTHER -> un

(* worker.js:174-191 (build 1: 18-26)  parentPort.on('message').           *)
OnControl(b, un, action) ==
    CASE action = "pause"  -> [un EXCEPT !.isPaused = TRUE]
      [] action = "resume" -> [un EXCEPT !.isPaused = FALSE, !.held = FALSE]
      [] action = "cancel" /\ b = 2 ->
           [un EXCEPT !.isCancelled = TRUE, !.held = FALSE]
      [] OTHER -> un

(* The thread runs JavaScript: it was not terminated and is not stuck in   *)
(* a loop of its own.                                                      *)
Runs(un) == un.phase # "dead" /\ ~un.spinning

----------------------------------------------------------------------------
(* State that can no longer matter is dropped, so that equal futures are   *)
(* equal states.  A thread that has finished processLink and its stream,   *)
(* or is dead, does nothing more: its control variables are cleared.  A    *)
(* unit with no message left to handle and no timer has no handler left    *)
(* to run: its closure is cleared.  link and retryCount stay as history,   *)
(* and so does the pause flag a thread had when it was terminated.         *)

Finished(un) == un.phase \in {"done", "dead"}

Retired(un) == Finished(un) /\ un.out = <<>> /\ ~un.timer

Forget(un) ==
    LET a == IF Finished(un)
             THEN [un EXCEPT !.inbox = <<>>,
                             !.isPaused = (un.phase = "dead" /\ @),
                             !.isCancelled = FALSE, !.dsettled = FALSE,
                             !.received = 0, !.downloadedSize = 0,
                             !.emitted = FALSE, !.spinning = FALSE,
                             !.held = FALSE, !.startTime = 0,
                             !.lastUpdateTime = 0, !.speed = 0, !.sent = 0]
             ELSE un
    IN  IF Retired(a)
        THEN [a EXCEPT !.id = 0, !.onChain = FALSE, !.settled = TRUE]
        ELSE a

ForgetAll(us) == [i \in DOMAIN us |-> Forget(us[i])]

----------------------------------------------------------------------------
(* Actions of the worker threads.                                          *)

Spend(what) == budget' = [budget EXCEPT ![what] = @ - 1]

(* An exception that escapes a handler of the coordinator ends the process *)
(* and its worker threads with it.                                         *)
Up == ~uncaught

WorkerLookup(u) ==
    /\ Up
    /\ Runs(units[u]) /\ units[u].phase = "connecting"
    /\ \E what \in {"media", "nomedia", "fail"} :
          /\ what = "fail" => budget.faults > 0
          /\ what = "nomedia" => budget.nomedia > 0
          /\ units' = [units EXCEPT ![u] = Forget(AfterLookup(@, what))]
          /\ disk' = IF what = "media" THEN disk \cup {PathOf(units[u])}
                     ELSE disk
          /\ CASE what = "fail" -> Spend("faults")
               [] what = "nomedia" -> Spend("nomedia")
               [] OTHER -> UNCHANGED budget
    /\ UNCHANGED <<rolling, now, linkQueue, activeWorkers, downloads, lastId,
                   task,
                   uncaught, lastInput, build>>

(* The stream delivers one more chunk and calls progressCallback.          *)
WorkerChunk(u) ==
    /\ Up
    /\ Runs(units[u]) /\ units[u].phase = "streaming"
    /\ units[u].received < budget.chunks
    /\ \E due \in Due(units[u]) :
          units' = [units EXCEPT ![u] =
                       progressCallback(build,
                           [@ EXCEPT !.received = @ + 1], due)]
    /\ UNCHANGED <<rolling, now, linkQueue, activeWorkers, downloads, lastId,
                   task, disk,
                   uncaught, lastInput, build, budget>>

WorkerStreamEnd(u) ==
    /\ Up
    /\ Runs(units[u]) /\ units[u].phase = "streaming"
    /\ units[u].received = budget.chunks
    /\ units' = [units EXCEPT ![u] = Forget(OnStreamEnd(build, @))]
    /\ UNCHANGED <<rolling, now, linkQueue, activeWorkers, downloads, lastId,
                   task, disk,
                   uncaught, lastInput, build, budget>>

(* A variant of WorkerStreamFail, below, that reports the failure and      *)
(* leaves the partial file where it is.                                    *)
WorkerStreamFailKeepsFile(u) ==
    /\ Up
    /\ Runs(units[u]) /\ units[u].phase = "streaming"
    /\ budget.faults > 0
    /\ units' = [units EXCEPT ![u] = Forget(OnStreamFail(build, @))]
    /\ Spend("faults")
    /\ UNCHANGED <<rolling, now, linkQueue, activeWorkers, downloads, lastId,
                   task, disk, uncaught, lastInput, build>>

(* worker.js:316-317 (build 1: 106-107)  the partial file is deleted       *)
(* before 'error' is posted.                                               *)
WorkerStreamFail(u) ==
    /\ Up
    /\ Runs(units[u]) /\ units[u].phase = "streaming"
    /\ budget.faults > 0
    /\ units' = [units EXCEPT ![u] = Forget(OnStreamFail(build, @))]
    /\ disk' = disk \ {PathOf(units[u])}
    /\ Spend("faults")
    /\ UNCHANGED <<rolling, now, linkQueue, activeWorkers, downloads, lastId,
                   task,
                   uncaught, lastInput, build>>

(* An exception nobody catches in the worker (for one, an 'error' event of *)
(* the write stream): the thread dies and the parent gets 'error' and      *)
(* 'exit', after the messages the worker had already posted.               *)
WorkerCrash(u) ==
    /\ Up
    /\ Runs(units[u]) /\ units[u].phase \in {"connecting", "streaming"}
    /\ budget.faults > 0
    /\ units' = [units EXCEPT ![u] =
                    Forget(Post([@ EXCEPT !.phase = "dead"], <<"crash">>))]
    /\ Spend("faults")
    /\ UNCHANGED <<rolling, now, linkQueue, activeWorkers, downloads, lastId,
                   task, disk,
                   uncaught, lastInput, build>>

WorkerOnMessage(u) ==
    /\ Up
    /\ Runs(units[u]) /\ units[u].inbox # <<>>
    /\ units' = [units EXCEPT ![u] =
                    OnControl(build, [@ EXCEPT !.inbox = Tail(@)],
                              Head(units[u].inbox))]
    /\ UNCHANGED <<rolling, now, linkQueue, activeWorkers, downloads, lastId,
                   task, disk,
                   uncaught, lastInput, build, budget>>

(* Time passes: the next Date.now() returns more.                          *)
Epoch == 2 * PROGRESS_UPDATE_INTERVAL
TickMs == PROGRESS_UPDATE_INTERVAL \div 2

Tick ==
    /\ Up
    /\ now > 0
    /\ now < Epoch + MaxTicks * TickMs
    /\ now' = now + TickMs
    /\ UNCHANGED <<rolling, linkQueue, activeWorkers, downloads, units,
                   lastId, task, disk, uncaught, lastInput, build, budget>>

(* The fs.unlink of the cancel branch is performed.                        *)
UnlinkDone(u) ==
    /\ Up
    /\ units[u].unlinkPending
    /\ units' = [units EXCEPT ![u].unlinkPending = FALSE]
    /\ disk' = disk \ {PathOf(units[u])}
    /\ UNCHANGED <<rolling, now, linkQueue, activeWorkers, downloads, lastId,
                   task,
                   uncaught, lastInput, build, budget>>

----------------------------------------------------------------------------
(* Actions of the coordinator.                                             *)

(* A handler that ran at time t and left the coordinator in state c.       *)
Handled(c, t, spent) ==
    /\ Commit([c EXCEPT !.units = ForgetAll(@)])
    /\ budget' = [budget EXCEPT
                    ![spent] = IF spent = "free" THEN @ ELSE @ - 1,
                    !.ties = IF t = lastId /\ Len(c.units) > Len(units)
                             THEN @ - 1 ELSE @]

(* index.js:517-532  main hands the operator's next link to processLink.   *)
Enqueue ==
    /\ Up
    /\ \E shape \in Shapes, t \in Clock :
          LET spent == CASE shape = "private" -> "links"
                         [] shape = "public"  -> "public"
                         [] OTHER             -> "junk"
          IN  /\ budget[spent] > 0
              /\ Handled(processLink(Coord, Cardinality(DOMAIN task) + 1,
                                     shape, t), t, spent)
    /\ UNCHANGED <<rolling, now, disk, lastInput, build>>

HandleMessage(u) ==
    /\ Up
    /\ units[u].out # <<>>
    /\ \E t \in Clock :
          Handled(OnMessage([Coord EXCEPT !.units[u].out = Tail(@)], u,
                            Head(units[u].out), t), t, "free")
    /\ UNCHANGED <<rolling, now, disk, lastInput, build>>

(* DOWNLOAD_TIMEOUT has passed since createWorker armed the timer.  Every  *)
(* timer has the same delay (index.js:321), so timers expire in the order  *)
(* createWorker armed them.                                                *)
Timeout(u) ==
    /\ Up
    /\ units[u].timer
    /\ \A v \in 1..(u - 1) : ~units[v].timer
    /\ budget.timeouts > 0
    /\ \E t \in Clock : Handled(OnTimeout(Coord, u, t), t, "timeouts")
    /\ UNCHANGED <<rolling, now, disk, lastInput, build>>

(* worker.postMessage({action}) to every entry of the downloads map.       *)
Broadcast(us, action) ==
    [i \in DOMAIN us |->
        IF ~Finished(us[i]) /\ \E id \in DOMAIN downloads : downloads[id] = i
        THEN [us[i] EXCEPT !.inbox = Append(@, action)]
        ELSE us[i]]

(* index.js:449-474  rl.on('line'): pause and resume are broadcast,        *)
(* status prints, any other line is an unknown command.                    *)
handleUserInput(us, line) ==
    CASE line = "pause"  -> Broadcast(us, "pause")
      [] line = "resume" -> Broadcast(us, "resume")
      [] OTHER -> us

UserInput ==
    /\ Up
    /\ budget.cmds > 0
    /\ \E line \in {"pause", "resume", "status", "cancel"} :
          /\ units' = handleUserInput(units, line)
          /\ lastInput' = line
    /\ Spend("cmds")
    /\ UNCHANGED <<rolling, now, linkQueue, activeWorkers, downloads, lastId,
                   task, disk,
                   uncaught, build>>

(* The Cancel signal of the control channel.  The worker accepts           *)
(* {action: 'cancel'} (worker.js:184-187); no code of index.js posts it,   *)
(* so its sender is taken from the design: cancel() broadcasts the signal  *)
(* to every live handle.                                                   *)
SignalCancel ==
    /\ Up
    /\ budget.cmds > 0
    /\ units' = Broadcast(units, "cancel")
    /\ Spend("cmds")
    /\ UNCHANGED <<rolling, now, linkQueue, activeWorkers, downloads, lastId,
                   task, disk,
                   uncaught, lastInput, build>>

----------------------------------------------------------------------------
(* The rolling traversal ("Rolling input" of the README).  Its code is not *)
(* among the listings of index.js; it is modelled from section 4.5 of the  *)
(* design: a cursor that walks the message ids of one channel upwards,     *)
(* submits each message that carries media to processLink and waits for    *)
(* that task's outcome before it moves on.                                 *)

FirstId == 100      \* the id the traversal starts at

Ids == FirstId..(FirstId + MaxIds - 1)

(* What fetching one message of the channel yields: a message with media,  *)
(* a message without, or an error other than id-out-of-range.              *)
Kinds == {"media", "none", "fault"}

(* A channel: the kinds of its messages from FirstId on; ids past its end  *)
(* are out of range.                                                       *)
Channels == UNION {[1..n -> Kinds] : n \in 0..MaxIds}

RollingOff ==
    [ state |-> "off", cur |-> 0, hasLast |-> FALSE, last |-> 0,
      channel |-> <<>>, submitted |-> <<>>, waitingFor |-> 0,
      cancelled |-> FALSE ]

(* Resolving has derived the cursor and, when it could, lastKnownMessageId.*)
RollingStart(ch, hasLast, last) ==
    [ RollingOff EXCEPT !.state = "scanning", !.cur = FirstId,
                        !.hasLast = hasLast, !.last = last, !.channel = ch ]

(* fetchMessage(channelId, messageId).                                     *)
FetchMessage(r, id) ==
    IF id - FirstId + 1 \in DOMAIN r.channel
    THEN r.channel[id - FirstId + 1]
    ELSE "outOfRange"

(* Variants of the two operators below: a traversal that gives up on any   *)
(* fetch error, and a cursor that moves on by two.                         *)
RollingStopsOnError(r) ==
    \/ r.cancelled
    \/ r.hasLast /\ r.cur > r.last
    \/ FetchMessage(r, r.cur) \in {"outOfRange", "fault"}

RollingAdvanceTwo(r) == [r EXCEPT !.cur = @ + 2, !.state = "scanning"]

(* Termination: a Cancel signal was issued, the cursor is past             *)
(* lastKnownMessageId, or the fetch reports id-out-of-range.               *)
RollingStops(r) ==
    \/ r.cancelled
    \/ r.hasLast /\ r.cur > r.last
    \/ FetchMessage(r, r.cur) = "outOfRange"

(* "Advance currentMessageId by one after every iteration regardless of    *)
(* outcome."                                                               *)
RollingAdvance(r) == [r EXCEPT !.cur = @ + 1, !.state = "scanning"]

(* One iteration of Scanning, up to the point where it waits for a task.   *)
RollingScan ==
    /\ Up
    /\ rolling.state = "scanning"
    /\ IF RollingStops(rolling)
       THEN /\ rolling' = [rolling EXCEPT !.state = "terminated"]
            /\ UNCHANGED <<linkQueue, activeWorkers, downloads, units,
                           lastId, task, uncaught, budget>>
       ELSE IF FetchMessage(rolling, rolling.cur) = "media"
       THEN LET link == Cardinality(DOMAIN task) + 1
            IN  /\ \E t \in Clock :
                      Handled(processLink(Coord, link, "private", t), t,
                              "free")
                /\ rolling' = [rolling EXCEPT
                                  !.state = "waiting",
                                  !.submitted = Append(@, rolling.cur),
                                  !.waitingFor = link]
       ELSE /\ rolling' = RollingAdvance(rolling)
            /\ UNCHANGED <<linkQueue, activeWorkers, downloads, units,
                           lastId, task, uncaught, budget>>
    /\ UNCHANGED <<now, disk, lastInput, build>>

(* The task the traversal waits for has reached its outcome.               *)
RollingResume ==
    /\ Up
    /\ rolling.state = "waiting"
    /\ task[rolling.waitingFor] \in {"fulfilled", "rejected"}
    /\ rolling' = RollingAdvance(rolling)
    /\ UNCHANGED <<now, linkQueue, activeWorkers, downloads, units, lastId,
                   task, disk, uncaught, lastInput, build, budget>>

(* The operator cancels while the traversal runs: the signal is broadcast  *)
(* to the live units and the traversal takes note of it.                   *)
RollingCancel ==
    /\ Up
    /\ rolling.state \in {"scanning", "waiting"}
    /\ ~rolling.cancelled
    /\ rolling' = [rolling EXCEPT !.cancelled = TRUE]
    /\ units' = Broadcast(units, "cancel")
    /\ UNCHANGED <<now, linkQueue, activeWorkers, downloads, lastId, task,
                   disk, uncaught, lastInput, build, budget>>

----------------------------------------------------------------------------
(* Specifications.                                                         *)

InitBase(b) ==
    /\ linkQueue = <<>>
    /\ activeWorkers = 0
    /\ downloads = EmptyMap
    /\ units = <<>>
    /\ lastId = 0
    /\ task = EmptyMap
    /\ disk = {}
    /\ uncaught = FALSE
    /\ lastInput = ""
    /\ budget = b

(* Manual and file input: no traversal runs.  No clock is kept.            *)
InitWith(b) == InitBase(b) /\ rolling = RollingOff /\ now = 0

U == DOMAIN units

(* Steps of a run in which no transfer fails.                              *)
NextPool ==
    \/ Enqueue
    \/ \E u \in U : WorkerLookup(u)
    \/ \E u \in U : WorkerChunk(u)
    \/ \E u \in U : WorkerStreamEnd(u)
    \/ \E u \in U : HandleMessage(u)
    \/ \E u \in U : Timeout(u)

(* ... and with transfers that fail and threads that crash.                *)
NextFail ==
    \/ NextPool
    \/ \E u \in U : WorkerStreamFail(u)
    \/ \E u \in U : WorkerCrash(u)

(* Transfers that fail and never complete.                                 *)
NextRetry ==
    \/ Enqueue
    \/ \E u \in U : WorkerLookup(u)
    \/ \E u \in U : WorkerStreamFail(u)
    \/ \E u \in U : HandleMessage(u)

(* No failing transfer, and an operator at the keyboard.                   *)
Next ==
    \/ NextPool
    \/ \E u \in U : WorkerOnMessage(u)
    \/ \E u \in U : UnlinkDone(u)
    \/ UserInput
    \/ SignalCancel

(* One link, an operator at the keyboard, either worker.                   *)
Init ==
    /\ InitWith([links |-> 1, junk |-> 1, public |-> 0, faults |-> 0, timeouts |-> 1,
                 nomedia |-> 1, cmds |-> MaxCmds, ties |-> 1, free |-> 0,
                 chunks |-> MaxChunks])
    /\ build \in {1, 2}

Spec == Init /\ [][Next]_vars

(* Many links, no failing transfer, no operator.                           *)
InitPool ==
    /\ InitWith([links |-> MaxLinks, junk |-> 0, public |-> 0, faults |-> 0, timeouts |-> 1,
                 nomedia |-> 1, cmds |-> 0, ties |-> 0, free |-> 0,
                 chunks |-> 1])
    /\ build = 2

SpecPool == InitPool /\ [][NextPool]_vars

(* A burst of links of which one transfer fails.                           *)
InitBurst ==
    /\ InitWith([links |-> MAX_SIMULTANEOUS_DOWNLOADS, junk |-> 1, public |-> 0, faults |-> 1,
                 timeouts |-> 1, nomedia |-> 0, cmds |-> 0, ties |-> 0,
                 free |-> 0, chunks |-> 1])
    /\ build = 2

SpecBurst == InitBurst /\ [][NextFail]_vars

(* One link whose transfers fail again and again.                          *)
InitRetry ==
    /\ InitWith([links |-> 1, junk |-> 0, public |-> 0, faults |-> MaxFaults, timeouts |-> 0,
                 nomedia |-> 0, cmds |-> 0, ties |-> 0, free |-> 0,
                 chunks |-> 0])
    /\ build = 2

SpecRetry == InitRetry /\ [][NextRetry]_vars

(* Links of every shape typed one after another; every transfer succeeds.  *)
NextIntake ==
    \/ Enqueue
    \/ \E u \in U : WorkerLookup(u)
    \/ \E u \in U : WorkerStreamEnd(u)
    \/ \E u \in U : HandleMessage(u)

InitIntake ==
    /\ InitWith([links |-> MaxLinks, junk |-> 1, public |-> 1, faults |-> 0,
                 timeouts |-> 0, nomedia |-> 0, cmds |-> 0, ties |-> 0,
                 free |-> 0, chunks |-> 0])
    /\ build = 2

SpecIntake == InitIntake /\ [][NextIntake]_vars

(* The links of a file, handed to processLink within one millisecond       *)
(* (index.js:520-522).                                                     *)
InitBatch ==
    /\ InitWith([links |-> 2, junk |-> 0, public |-> 0, faults |-> 0,
                 timeouts |-> 1, nomedia |-> 0, cmds |-> 0, ties |-> 1,
                 free |-> 0, chunks |-> 1])
    /\ build = 2

SpecBatch == InitBatch /\ [][NextPool]_vars

(* The same, with the scheduling Node gives: a worker that can take its    *)
(* next step takes it, a message that was posted is handled and a timer    *)
(* that is armed fires.  Nothing makes the operator submit a link.         *)
Scheduling ==
    /\ WF_vars(\E u \in U : WorkerLookup(u))
    /\ WF_vars(\E u \in U : WorkerChunk(u))
    /\ WF_vars(\E u \in U : WorkerStreamEnd(u))
    /\ WF_vars(\E u \in U : HandleMessage(u))
    /\ WF_vars(\E u \in U : Timeout(u))

SpecBatchFair == InitBatch /\ [][NextPool]_vars /\ Scheduling

(* One link that is paused, resumed and cancelled while it streams.        *)
NextControl ==
    \/ Enqueue
    \/ \E u \in U : WorkerLookup(u)
    \/ \E u \in U : WorkerChunk(u)
    \/ \E u \in U : WorkerStreamEnd(u)
    \/ \E u \in U : HandleMessage(u)
    \/ \E u \in U : WorkerOnMessage(u)
    \/ \E u \in U : UnlinkDone(u)
    \/ UserInput
    \/ SignalCancel

InitControl ==
    /\ InitWith([links |-> 1, junk |-> 0, public |-> 0, faults |-> 0,
                 timeouts |-> 0, nomedia |-> 0, cmds |-> MaxCmds, ties |-> 0,
                 free |-> 0, chunks |-> MaxChunks])
    /\ build \in {1, 2}

SpecControl == InitControl /\ [][NextControl]_vars

(* One link that is paused and resumed while its deadline runs.            *)
NextDeadline ==
    \/ Enqueue
    \/ \E u \in U : WorkerLookup(u)
    \/ \E u \in U : WorkerChunk(u)
    \/ \E u \in U : WorkerStreamEnd(u)
    \/ \E u \in U : HandleMessage(u)
    \/ \E u \in U : Timeout(u)
    \/ \E u \in U : WorkerOnMessage(u)
    \/ UserInput

InitDeadline ==
    /\ InitWith([links |-> 1, junk |-> 0, public |-> 0, faults |-> 0,
                 timeouts |-> 1, nomedia |-> 0, cmds |-> MaxCmds, ties |-> 0,
                 free |-> 0, chunks |-> MaxChunks])
    /\ build \in {1, 2}

SpecDeadline == InitDeadline /\ [][NextDeadline]_vars

(* One link whose transfer may fail and be retried, and an operator at the *)
(* keyboard.                                                               *)
NextPaused ==
    \/ Enqueue
    \/ \E u \in U : WorkerLookup(u)
    \/ \E u \in U : WorkerChunk(u)
    \/ \E u \in U : WorkerStreamEnd(u)
    \/ \E u \in U : WorkerStreamFail(u)
    \/ \E u \in U : HandleMessage(u)
    \/ \E u \in U : WorkerOnMessage(u)
    \/ UserInput

InitPaused ==
    /\ InitWith([links |-> 1, junk |-> 0, public |-> 0, faults |-> 1,
                 timeouts |-> 0, nomedia |-> 0, cmds |-> MaxCmds, ties |-> 0,
                 free |-> 0, chunks |-> 1])
    /\ build \in {1, 2}

SpecPaused == InitPaused /\ [][NextPaused]_vars

(* One link, and a clock: the times and the rates of its progress          *)
(* messages.                                                               *)
NextTimed ==
    \/ Enqueue
    \/ Tick
    \/ \E u \in U : WorkerLookup(u)
    \/ \E u \in U : WorkerChunk(u)
    \/ \E u \in U : WorkerStreamEnd(u)
    \/ \E u \in U : HandleMessage(u)

InitTimed ==
    /\ InitBase([links |-> 1, junk |-> 0, public |-> 0, faults |-> 0,
                 timeouts |-> 0, nomedia |-> 0, cmds |-> 0, ties |-> 0,
                 free |-> 0, chunks |-> MaxChunks])
    /\ rolling = RollingOff
    /\ now = Epoch
    /\ build \in {1, 2}

SpecTimed == InitTimed /\ [][NextTimed]_vars

(* One link more than the pool holds, and one transfer that fails.         *)
InitRequeue ==
    /\ InitWith([links |-> MAX_SIMULTANEOUS_DOWNLOADS + 1, junk |-> 0,
                 public |-> 0, faults |-> 1, timeouts |-> 0, nomedia |-> 0,
                 cmds |-> 0, ties |-> 0, free |-> 0, chunks |-> 0])
    /\ build = 2

SpecRequeue == InitRequeue /\ [][NextRetry]_vars

(* Two links, either worker, transfers that fail or crash.                 *)
InitFail ==
    /\ InitWith([links |-> 2, junk |-> 0, public |-> 0, faults |-> 1,
                 timeouts |-> 1, nomedia |-> 0, cmds |-> 0, ties |-> 0,
                 free |-> 0, chunks |-> 1])
    /\ build \in {1, 2}

SpecFail == InitFail /\ [][NextFail]_vars

(* One link more than the pool holds; transfers complete or fail.          *)
NextSlots ==
    \/ Enqueue
    \/ \E u \in U : WorkerLookup(u)
    \/ \E u \in U : WorkerStreamEnd(u)
    \/ \E u \in U : WorkerStreamFail(u)
    \/ \E u \in U : HandleMessage(u)

InitSlots ==
    /\ InitWith([links |-> MAX_SIMULTANEOUS_DOWNLOADS + 1, junk |-> 0,
                 public |-> 0, faults |-> 1, timeouts |-> 0, nomedia |-> 0,
                 cmds |-> 0, ties |-> 0, free |-> 0, chunks |-> 0])
    /\ build = 2

SpecSlots == InitSlots /\ [][NextSlots]_vars

(* The channels a traversal can be started on, with and without a          *)
(* lastKnownMessageId.                                                     *)
RollingStarts ==
    {RollingStart(ch, FALSE, 0) : ch \in Channels}
        \cup {RollingStart(ch, TRUE, last) : ch \in Channels, last \in Ids}

(* A rolling traversal whose transfers complete or run into the deadline;  *)
(* the operator may cancel.                                                *)
NextRolling ==
    \/ RollingScan
    \/ RollingResume
    \/ RollingCancel
    \/ \E u \in U : WorkerLookup(u)
    \/ \E u \in U : WorkerStreamEnd(u)
    \/ \E u \in U : WorkerOnMessage(u)
    \/ \E u \in U : HandleMessage(u)
    \/ \E u \in U : Timeout(u)

InitRolling ==
    /\ InitBase([links |-> 0, junk |-> 0, public |-> 0, faults |-> 0,
                 timeouts |-> 1, nomedia |-> 0, cmds |-> 0, ties |-> 0,
                 free |-> 0, chunks |-> 0])
    /\ build = 2
    /\ rolling \in RollingStarts
    /\ now = 0

SpecRolling == InitRolling /\ [][NextRolling]_vars

(* A rolling traversal that the operator cancels while a transfer streams. *)
NextRollingCancel ==
    \/ RollingScan
    \/ RollingResume
    \/ RollingCancel
    \/ \E u \in U : WorkerLookup(u)
    \/ \E u \in U : WorkerChunk(u)
    \/ \E u \in U : WorkerStreamEnd(u)
    \/ \E u \in U : WorkerOnMessage(u)
    \/ \E u \in U : UnlinkDone(u)
    \/ \E u \in U : HandleMessage(u)

InitRollingCancel ==
    /\ InitBase([links |-> 0, junk |-> 0, public |-> 0, faults |-> 0,
                 timeouts |-> 0, nomedia |-> 0, cmds |-> 0, ties |-> 0,
                 free |-> 0, chunks |-> 1])
    /\ build = 2
    /\ rolling \in RollingStarts
    /\ now = 0

SpecRollingCancel == InitRollingCancel /\ [][NextRollingCancel]_vars

----------------------------------------------------------------------------
(* Observations shared by the properties.                                  *)

Range(q) == {q[i] : i \in DOMAIN q}
Accepted == DOMAIN task
Terminal(l) == task[l] \in {"fulfilled", "rejected"}
Dispatched(l) == task[l] # "queued"
Live(u) == ~Finished(units[u])
LiveUnits == {u \in U : Live(u)}
UnitsOf(l) == {u \in U : units[u].link = l}
NewUnits == (DOMAIN units') \ (DOMAIN units)

----------------------------------------------------------------------------
(* C1: whatever links are accepted and however units complete, fail, are   *)
(* retried or time out, the number of live download units (worker threads  *)
(* started that have not yet finished their transfer) never exceeds        *)
(* MAX_SIMULTANEOUS_DOWNLOADS.                                             *)
C1_LiveUnitsWithinCap ==
    Cardinality(LiveUnits) <= MAX_SIMULTANEOUS_DOWNLOADS

(* C2: accepted links are dispatched first in, first out: a link that      *)
(* processLink accepted earlier has its first unit started no later than   *)
(* any link accepted after it; the queue holds exactly the links not yet   *)
(* dispatched, oldest first.                                               *)
C2_FifoDispatch ==
    /\ \A a, b \in Accepted : a < b /\ Dispatched(b) => Dispatched(a)
    /\ Range(linkQueue) = {l \in Accepted : ~Dispatched(l)}
    /\ \A i, j \in DOMAIN linkQueue : i < j => linkQueue[i] < linkQueue[j]
    /\ \A u, v \in U :
          /\ units[u].retryCount = 0 /\ units[v].retryCount = 0
          /\ units[u].link < units[v].link
          => u < v

(* All five links dispatched one after another, the last two after slots   *)
(* were freed.                                                             *)
C2_Witness ==
    /\ Cardinality(Accepted) = MaxLinks
    /\ \A l \in Accepted : Dispatched(l)
    /\ \E u, v \in LiveUnits :
          u < v /\ units[u].link = MaxLinks - 1 /\ units[v].link = MaxLinks

(* C3: the pool stays saturated.  Between coordinator handlers the queue   *)
(* is never non-empty while a slot is free; links enqueued back to back    *)
(* start min(n, cap) units at once and leave the rest queued (3 and 2 for  *)
(* five links and a cap of three); and each time a running task reaches a  *)
(* terminal outcome exactly one queued link, the oldest, is promoted.      *)
C3_Saturated ==
    /\ linkQueue # <<>> => activeWorkers = MAX_SIMULTANEOUS_DOWNLOADS
    /\ (\A l \in Accepted : ~Terminal(l)) =>
          /\ Len(units) = Min(Cardinality(Accepted), MAX_SIMULTANEOUS_DOWNLOADS)
          /\ Len(linkQueue) = Cardinality(Accepted) - Len(units)
          /\ activeWorkers = Len(units)

C3_Promotes ==
    (\E l \in Accepted : ~Terminal(l) /\ Terminal(l)') =>
        IF linkQueue # <<>>
        THEN /\ linkQueue' = Tail(linkQueue)
             /\ activeWorkers' = activeWorkers
             /\ Cardinality(NewUnits) = 1
             /\ \A u \in NewUnits : units'[u].link = Head(linkQueue)
        ELSE /\ NewUnits = {}
             /\ activeWorkers' = activeWorkers - 1

C3_PoolSaturated == C3_Saturated /\ [][C3_Saturated' /\ C3_Promotes]_vars

(* Five links accepted, one of the first three has ended and the fourth    *)
(* took its slot while the fifth waits.                                    *)
C3_Witness ==
    /\ Cardinality(Accepted) = MaxLinks
    /\ linkQueue = <<MaxLinks>>
    /\ activeWorkers = MAX_SIMULTANEOUS_DOWNLOADS
    /\ Cardinality({l \in Accepted : Terminal(l)}) = 1
    /\ task[MaxLinks - 1] = "pending"

(* The coordinator handles message m of unit u in this step.               *)
Handles(u, m) ==
    /\ units[u].out # <<>> /\ Head(units[u].out) = m
    /\ Len(units'[u].out) < Len(units[u].out)

(* C4: a task whose unit reports a failure is dispatched again while its   *)
(* attempt count is below MAX_RETRIES; the task becomes finally failed     *)
(* only on the failure of attempt MAX_RETRIES + 1, and once it is finally  *)
(* failed no unit is started for it any more.                              *)
C4_Step ==
    /\ \A u \in U :
          Handles(u, "error") /\ units[u].retryCount < MAX_RETRIES =>
              \E v \in NewUnits :
                  /\ units'[v].link = units[u].link
                  /\ units'[v].retryCount = units[u].retryCount + 1
    /\ \A l \in Accepted :
          task[l] # "rejected" /\ task'[l] = "rejected" =>
              \E u \in UnitsOf(l) :
                  Handles(u, "error") /\ units[u].retryCount = MAX_RETRIES
    /\ \A l \in Accepted :
          task[l] = "rejected" => \A v \in NewUnits : units'[v].link # l

C4_RetryThenFinalFailure == [][C4_Step]_vars

(* The timer of unit u expires in this step.                               *)
TimesOut(u) ==
    /\ units[u].timer /\ ~units'[u].timer
    /\ units'[u].out = units[u].out

(* C5: when DOWNLOAD_TIMEOUT elapses before a unit has reported a terminal *)
(* event, the pool terminates the unit and treats the timeout like a       *)
(* failure reported by the transport: the task is retried if its attempt   *)
(* count is below MAX_RETRIES and becomes finally failed only otherwise.   *)
C5_Step ==
    \A u \in U :
        TimesOut(u) =>
            /\ units'[u].phase = "dead"
            /\ IF units[u].retryCount < MAX_RETRIES
               THEN /\ \E v \in NewUnits :
                          /\ units'[v].link = units[u].link
                          /\ units'[v].retryCount = units[u].retryCount + 1
                    /\ task'[units[u].link] # "rejected"
               ELSE units[u].onChain => task'[units[u].link] = "rejected"

C5_TimeoutIsRetried == [][C5_Step]_vars

(* The worker of unit u handles a control message in this step.           *)
ControlStep(u) ==
    /\ units[u].inbox # <<>>
    /\ units'[u].inbox = Tail(units[u].inbox)
    /\ units'[u].phase = units[u].phase

(* Unit u observed the cancel flag and reported its end.                   *)
CancelReported(u) == units[u].isCancelled /\ units[u].dsettled

(* C6: a unit that observes the cancel signal ends cancelled, which is not *)
(* a failure: when the coordinator handles the unit's report it starts no  *)
(* retry unit for the task and does not mark the task failed.              *)
C6_Step ==
    \A u \in U :
        CancelReported(u) /\ Handles(u, "error") =>
            /\ \A v \in NewUnits : units'[v].link # units[u].link
            /\ task'[units[u].link] # "rejected"

C6_CancelIsNotFailure == [][C6_Step]_vars

(* C7: when a unit is cancelled, the partial file of the attempt is gone   *)
(* from the disk before the unit reports its end to the coordinator: once  *)
(* the report is posted the deletion is no longer outstanding.             *)
C7_FileGoneBeforeReport ==
    \A u \in U : CancelReported(u) => ~units[u].unlinkPending

(* C8: the operator's line "cancel", entered while downloads are live,     *)
(* puts a cancel signal on the control channel of every live unit.         *)
C8_Step ==
    lastInput # "cancel" /\ lastInput' = "cancel" =>
        \A u \in LiveUnits :
            (\E id \in DOMAIN downloads : downloads[id] = u) =>
                units'[u].inbox = Append(units[u].inbox, "cancel")

C8_CancelCommandIsBroadcast == [][C8_Step]_vars

(* C9: once a progress callback has found the unit paused, and until       *)
(* resume or cancel arrives, the unit makes no progress: the stream        *)
(* delivers no further chunk, does not end, and nothing is posted.         *)
C9_Step ==
    \A u \in U :
        units[u].held /\ ~ControlStep(u) =>
            /\ units'[u].received <= units[u].received
            /\ units'[u].phase \in {units[u].phase, "dead"}
            /\ Len(units'[u].out) <= Len(units[u].out)

C9_PausedUnitStandsStill == [][C9_Step]_vars

(* C10: a paused unit that is sent resume gets to process it: while a      *)
(* resume is waiting in the unit's inbox, the unit's thread is able to run *)
(* its message handler.                                                    *)
C10_ResumeIsProcessed ==
    \A u \in LiveUnits :
        (\E i \in DOMAIN units[u].inbox : units[u].inbox[i] = "resume") =>
            Runs(units[u])

(* C11: when the message carries no downloadable attachment the task      *)
(* fails (media not found) instead of completing, and it is not retried:   *)
(* handling the unit's report marks the task failed and starts no unit     *)
(* for the link.                                                           *)
C11_Step ==
    \A u \in U :
        Handles(u, "nomedia") =>
            /\ task'[units[u].link] = "rejected"
            /\ \A v \in NewUnits : units'[v].link # units[u].link

C11_NoMediaFails == [][C11_Step]_vars

(* The operator submits a link that the validator turns down.              *)
SubmitsInvalid ==
    \/ budget'.junk < budget.junk
    \/ budget'.public < budget.public /\ ~validateTelegramLink("public")

(* C12: a link that fails validation is rejected at enqueue: it is not     *)
(* appended to linkQueue, no unit is started for it, and linkQueue,        *)
(* activeWorkers and the downloads map are left as they were.              *)
C12_Step ==
    SubmitsInvalid =>
        /\ linkQueue' = linkQueue
        /\ activeWorkers' = activeWorkers
        /\ downloads' = downloads
        /\ NewUnits = {}
        /\ task' = task

C12_InvalidLinkIsDropped == [][C12_Step]_vars

(* A link of no supported shape has been turned down; the pool is full    *)
(* and a link is waiting.                                                  *)
C12_Witness ==
    /\ budget.junk = 0
    /\ linkQueue # <<>>
    /\ activeWorkers = MAX_SIMULTANEOUS_DOWNLOADS
    /\ Cardinality(Accepted) = Len(units) + Len(linkQueue)

(* C13: enqueue accepts every link of either supported shape: a private-  *)
(* channel link (t.me/c/<channel id>/<message id>) and a public-channel    *)
(* link (t.me/<channel name>/<message id>) both become tasks, queued or    *)
(* dispatched at once.                                                     *)
C13_Step ==
    budget'.links < budget.links \/ budget'.public < budget.public =>
        \E l \in DOMAIN task' :
            /\ l \notin DOMAIN task
            /\ l \in Range(linkQueue') \/ \E v \in NewUnits : units'[v].link = l

C13_BothShapesAccepted == [][C13_Step]_vars

(* Unit u has its destination file open and its stream running.           *)
Writes(u) == units[u].phase = "streaming"

(* C14: no two units that are live at the same time, be they attempts of   *)
(* different tasks or attempts of one task, write to the same destination  *)
(* path.                                                                   *)
C14_DistinctPaths ==
    \A u, v \in U :
        u # v /\ Writes(u) /\ Writes(v) => PathOf(units[u]) # PathOf(units[v])

(* C15: when a task has finally failed, by an error on its last attempt   *)
(* or by a timeout, no partial file of any of its attempts is on disk.     *)
C15_FailedLeavesNothing ==
    \A l \in Accepted :
        task[l] = "rejected" =>
            \A u \in UnitsOf(l) : PathOf(units[u]) \notin disk

(* C16: no message or event from a unit, in any order and under any       *)
(* interleaving with timeouts and with other units' events, raises an      *)
(* uncaught exception in the coordinator; a progress message is never      *)
(* handled for an id that has no entry in the downloads map.               *)
C16_NoUncaughtException == ~uncaught

(* C17: at every point each live unit has exactly one entry of its own in *)
(* the downloads map, and no two live units share an id, so a pause or     *)
(* resume broadcast over the map reaches every live unit.                  *)
C17_OneEntryPerLiveUnit ==
    /\ \A u \in LiveUnits :
          /\ units[u].id \in DOMAIN downloads
          /\ downloads[units[u].id] = u
          /\ Cardinality({id \in DOMAIN downloads : downloads[id] = u}) = 1
    /\ \A u, v \in LiveUnits : u # v => units[u].id # units[v].id

(* C18: whenever an attempt has ended, by a complete or error message, a   *)
(* timeout, a worker 'error' event or a non-zero exit, its entry has been  *)
(* removed: once the coordinator has handled the end of a unit, the        *)
(* downloads map holds no entry for it.                                    *)
C18_NoEntryForEndedUnit ==
    \A id \in DOMAIN downloads : ~Retired(units[downloads[id]])

(* C19: pause and resume are idempotent on a unit: handling pause twice   *)
(* in a row leaves the unit in the state that handling it once does, and   *)
(* handling resume on a unit that is not paused changes nothing.           *)
C19_PauseResumeIdempotent ==
    \A u \in U :
        /\ OnControl(build, OnControl(build, units[u], "pause"), "pause")
               = OnControl(build, units[u], "pause")
        /\ ~units[u].isPaused =>
               OnControl(build, units[u], "resume") = units[u]

(* A paused unit with a second pause waiting in its inbox.                 *)
C19_Witness ==
    \E u \in LiveUnits :
        units[u].isPaused /\ units[u].inbox = <<"pause">>

(* The progress messages among msgs.                                       *)
ProgressIn(msgs) == {i \in DOMAIN msgs : msgs[i] = "progress"}

(* C20: once a unit has received cancel, no later pause or resume undoes   *)
(* it: the cancel flag stays set while the unit runs, every later progress *)
(* callback takes the cancel branch, and the unit posts no further         *)
(* progress message.                                                       *)
C20_Step ==
    \A u \in U :
        units[u].isCancelled =>
            /\ units'[u].isCancelled \/ Finished(units'[u])
            /\ Cardinality(ProgressIn(units'[u].out))
                  <= Cardinality(ProgressIn(units[u].out))
            /\ units'[u].received > units[u].received =>
                  /\ units'[u].unlinkPending
                  /\ units'[u].dsettled
                  /\ units'[u].downloadedSize = units[u].downloadedSize

C20_CancelIsOneWay == [][C20_Step]_vars

(* A cancelled unit that was also told to pause, and whose next callback   *)
(* took the cancel branch.                                                 *)
C20_Witness ==
    \E u \in LiveUnits :
        /\ units[u].isCancelled /\ units[u].isPaused
        /\ units[u].unlinkPending /\ units[u].received > 0

(* Unit u has an entry in the downloads map.                               *)
Tracked(ds, u) == \E id \in DOMAIN ds : ds[id] = u

(* C21: pausing does not stop a unit's deadline.  Handling pause leaves    *)
(* the unit's timer armed, and when DOWNLOAD_TIMEOUT elapses on a paused   *)
(* unit the coordinator terminates its thread and removes its entry from   *)
(* the downloads map.                                                      *)
C21_Step ==
    \A u \in U :
        /\ ControlStep(u) => units'[u].timer = units[u].timer
        /\ units[u].isPaused /\ TimesOut(u) =>
              /\ units'[u].phase = "dead"
              /\ ~Tracked(downloads', u)

C21_PauseKeepsDeadline == [][C21_Step]_vars

(* A unit that was terminated by its deadline while it was paused.         *)
C21_Witness ==
    \E u \in U :
        /\ units[u].phase = "dead" /\ units[u].isPaused
        /\ ~units[u].timer /\ ~Tracked(downloads, u)
        /\ task[units[u].link] = "rejected"

(* The ids the traversal has gone past.                                    *)
Passed == FirstId..(rolling.cur - 1)

(* The scenario of the design: start at 100, lastKnownMessageId = 103,     *)
(* media at 101 and 103 only, and nobody cancels.                          *)
Scenario100 ==
    /\ rolling.hasLast /\ rolling.last = 103
    /\ FetchMessage(rolling, 100) = "none"
    /\ FetchMessage(rolling, 101) = "media"
    /\ FetchMessage(rolling, 102) = "none"
    /\ FetchMessage(rolling, 103) = "media"
    /\ ~rolling.cancelled

(* C22: the rolling traversal visits message ids in increasing order, one  *)
(* more per iteration whatever the iteration's outcome, and submits a task *)
(* exactly for the ids that carry media, in id order; started at 100 with  *)
(* lastKnownMessageId = 103 and media at 101 and 103 only, it submits two  *)
(* tasks, 101 then 103, and has terminated once 103 is processed.          *)
C22_Inv ==
    rolling.state # "off" =>
        /\ \A i, j \in DOMAIN rolling.submitted :
              i < j => rolling.submitted[i] < rolling.submitted[j]
        /\ \A i \in DOMAIN rolling.submitted :
              FetchMessage(rolling, rolling.submitted[i]) = "media"
        /\ \A id \in Passed :
              FetchMessage(rolling, id) = "media" =>
                  id \in Range(rolling.submitted)
        /\ Len(rolling.submitted) = Cardinality(Accepted)
        /\ Scenario100 /\ rolling.state = "terminated" =>
              rolling.submitted = <<101, 103>> /\ rolling.cur = 104

C22_Step ==
    /\ rolling'.cur \in {rolling.cur, rolling.cur + 1}
    /\ rolling.state = "waiting" /\ rolling'.state # "waiting" =>
          rolling'.cur = rolling.cur + 1
    /\ rolling.state = "scanning" /\ rolling'.state = "scanning"
          /\ rolling'.cancelled = rolling.cancelled /\ rolling' # rolling =>
          rolling'.cur = rolling.cur + 1
    /\ rolling'.submitted # rolling.submitted =>
          /\ rolling'.submitted = Append(rolling.submitted, rolling.cur)
          /\ rolling'.cur = rolling.cur
    /\ rolling.state = "terminated" =>
          rolling' = rolling /\ DOMAIN task' = DOMAIN task

StopDue ==
    \/ rolling.cancelled
    \/ rolling.hasLast /\ rolling.cur > rolling.last
    \/ rolling.cur - FirstId + 1 \notin DOMAIN rolling.channel

(* The traversal runs an iteration in this step.                           *)
Scans ==
    /\ rolling.state = "scanning"
    /\ rolling' # rolling
    /\ rolling'.cancelled = rolling.cancelled

(* C23: the rolling traversal terminates at the first of: a fetch that     *)
(* reports id-out-of-range, an issued Cancel signal, the cursor exceeding  *)
(* an established lastKnownMessageId.  It terminates for no other reason:  *)
(* any other error of a single fetch is skipped and the traversal goes on  *)
(* with the next id.                                                       *)
C23_Inv ==
    rolling.state # "off" =>
        /\ \A id \in Passed :
              /\ id - FirstId + 1 \in DOMAIN rolling.channel
              /\ rolling.hasLast => id <= rolling.last
        /\ rolling.state = "waiting" =>
              /\ rolling.cur - FirstId + 1 \in DOMAIN rolling.channel
              /\ rolling.hasLast => rolling.cur <= rolling.last

C23_Step ==
    /\ rolling.state # "terminated" /\ rolling'.state = "terminated" =>
          Scans /\ StopDue
    /\ Scans /\ StopDue => rolling'.state = "terminated"
    /\ Scans /\ ~StopDue /\ FetchMessage(rolling, rolling.cur) = "fault" =>
          /\ rolling'.state = "scanning"
          /\ rolling'.cur = rolling.cur + 1
          /\ rolling'.submitted = rolling.submitted

C24_Step ==
    \A v \in NewUnits :
        units'[v].retryCount > 0 =>
            \A l \in Range(linkQueue) : l \notin Range(linkQueue')

C24_RetryGoesToTail == [][C24_Step]_vars

(* The units started for attempt r of link l.                              *)
Attempts(l, r) == {u \in UnitsOf(l) : units[u].retryCount = r}

(* C25: for any accepted link at most MAX_RETRIES + 1 units are ever       *)
(* started, and a failed attempt causes at most one new unit: there is at  *)
(* most one unit per attempt number of a link, whatever messages and       *)
(* events the attempt's worker delivers and in whatever order.             *)
C25_OneUnitPerAttempt ==
    \A l \in Accepted :
        /\ Cardinality(UnitsOf(l)) <= MAX_RETRIES + 1
        /\ \A r \in 0..MAX_RETRIES : Cardinality(Attempts(l, r)) <= 1

(* The terminal messages among msgs: 'complete' (also the one that carries *)
(* the no-media result) and 'error'.                                       *)
TerminalIn(msgs) ==
    {i \in DOMAIN msgs : msgs[i] \in {"complete", "nomedia", "error"}}

(* C26: a unit delivers one terminal message for its attempt, a 'complete' *)
(* or an 'error', never both and never one of them twice: at no time are   *)
(* two terminal messages of one unit on their way to the coordinator.      *)
C26_OneTerminalMessage ==
    \A u \in U : Cardinality(TerminalIn(units[u].out)) <= 1

(* The 'complete' messages among msgs.                                     *)
CompleteIn(msgs) == {i \in DOMAIN msgs : msgs[i] = "complete"}

(* C27: on cancel the stream is aborted.  Once a unit has taken the cancel *)
(* branch its stream delivers no further chunk, and the unit posts no      *)
(* 'complete' message for the attempt.                                     *)
C27_Step ==
    \A u \in U :
        CancelReported(u) =>
            /\ units'[u].received <= units[u].received
            /\ Cardinality(CompleteIn(units'[u].out))
                  <= Cardinality(CompleteIn(units[u].out))

C27_CancelAbortsStream == [][C27_Step]_vars

(* The 'error' messages among msgs.                                        *)
ErrorIn(msgs) == {i \in DOMAIN msgs : msgs[i] = "error"}

(* The stream of unit u fails in this step and the unit reports it.        *)
TransportFails(u) ==
    /\ units[u].phase = "streaming" /\ units'[u].phase = "done"
    /\ Cardinality(ErrorIn(units'[u].out))
          > Cardinality(ErrorIn(units[u].out))

(* C28: on a transport error the unit has closed and deleted its partial   *)
(* file when it posts 'error', and the unit does not start another attempt *)
(* itself: the step starts no unit, and a unit that has ended stays ended. *)
C28_Step ==
    \A u \in U :
        /\ TransportFails(u) =>
              /\ PathOf(units[u]) \notin disk'
              /\ NewUnits = {}
        /\ Finished(units[u]) =>
              /\ Finished(units'[u])
              /\ units'[u].received = units[u].received

C28_FileGoneBeforeFailed == [][C28_Step]_vars

(* A unit whose stream failed after a progress report: its file is gone    *)
(* while the other link's unit is still writing its own.                   *)
C28_Witness ==
    \E u, v \in U :
        /\ units[u].phase = "done"
        /\ ProgressIn(units[u].out) # {} /\ ErrorIn(units[u].out) # {}
        /\ PathOf(units[u]) \notin disk
        /\ Writes(v) /\ PathOf(units[v]) \in disk

(* C29: the cleanup of a failed or cancelled unit deletes only the file of *)
(* its own attempt: a step that removes a path from the disk removes no    *)
(* path that another unit, one that has not been cancelled, is writing.    *)
C29_Step ==
    \A p \in disk \ disk' :
        \A v \in U :
            /\ units'[v].phase = "streaming"
            /\ ~units'[v].isCancelled
            => PathOf(units'[v]) # p

C29_CleanupDeletesOwnFile == [][C29_Step]_vars

(* The links whose createWorker promise processQueue is awaiting.          *)
Awaited == {l \in Accepted : task[l] = "pending"}

(* C30: activeWorkers stays within 0..MAX_SIMULTANEOUS_DOWNLOADS and is    *)
(* the number of processQueue invocations that await a createWorker        *)
(* promise; a dispatched link adds one to it once and takes one off once,  *)
(* when its promise has settled: a link awaited is never queued again, and *)
(* a link whose promise has settled is never awaited again.                *)
C30_Inv ==
    /\ 0 <= activeWorkers
    /\ activeWorkers <= MAX_SIMULTANEOUS_DOWNLOADS
    /\ activeWorkers = Cardinality(Awaited)

C30_Step ==
    /\ \A l \in Accepted :
          /\ task[l] = "pending" => task'[l] # "queued"
          /\ Terminal(l) => task'[l] = task[l]
    /\ activeWorkers' - activeWorkers
          = Cardinality(Awaited' \ Awaited) - Cardinality(Awaited \ Awaited')

C30_ActiveWorkersCountsAwaits == C30_Inv /\ [][C30_Inv' /\ C30_Step]_vars

(* One link has completed and the link that waited took its slot, another *)
(* link has failed and is being retried: the pool is full again.           *)
C30_Witness ==
    /\ activeWorkers = MAX_SIMULTANEOUS_DOWNLOADS
    /\ \E l \in Accepted : task[l] = "fulfilled"
    /\ \E u \in LiveUnits :
          units[u].retryCount > 0 /\ task[units[u].link] = "pending"
    /\ Cardinality(Accepted) = MAX_SIMULTANEOUS_DOWNLOADS + 1

(* The positions of link l in the queue.                                   *)
QueuedAt(l) == {i \in DOMAIN linkQueue : linkQueue[i] = l}

(* C31: every accepted link is taken from the queue exactly once.  Until   *)
(* it is dispatched it is in the queue, once, and has no unit; from then   *)
(* on it is not in the queue and has one first-attempt unit, so no link is *)
(* lost and none is dispatched by two invocations of processQueue.         *)
C31_DispatchedExactlyOnce ==
    /\ Range(linkQueue) \subseteq Accepted
    /\ \A l \in Accepted :
          IF task[l] = "queued"
          THEN Cardinality(QueuedAt(l)) = 1 /\ UnitsOf(l) = {}
          ELSE QueuedAt(l) = {} /\ Cardinality(Attempts(l, 0)) = 1

(* The link that had to wait was dispatched by the processQueue call of a  *)
(* finally block, while another link was being retried.                    *)
C31_Witness ==
    /\ Cardinality(Accepted) = MAX_SIMULTANEOUS_DOWNLOADS + 1
    /\ linkQueue = <<>>
    /\ \A l \in Accepted : Cardinality(Attempts(l, 0)) = 1
    /\ \E u \in U : units[u].retryCount > 0
    /\ \E l \in Accepted : task[l] = "fulfilled"

(* main's exit condition (index.js:539): nothing queued, no slot taken.    *)
Drained == linkQueue = <<>> /\ activeWorkers = 0

PauseReached(un) == un.isPaused \/ "pause" \in Range(un.inbox)

(* C33: a pause lasts until the operator resumes.  While the last line the *)
(* operator typed is pause, every live unit is paused (or about to be, the *)
(* signal being on its way), the units started after the command as well.  *)
C33_PauseCoversNewUnits ==
    lastInput = "pause" => \A u \in LiveUnits : PauseReached(units[u])

(* Unit u's progress callback runs in this step / posts in this step.      *)
CallbackStep(u) ==
    u \in U /\ units'[u].received = units[u].received + 1

Posts(u) == Len(units'[u].out) = Len(units[u].out) + 1

(* C34: progress messages are throttled.  A callback of a unit that has    *)
(* already posted a progress message posts the next one only when at       *)
(* least PROGRESS_UPDATE_INTERVAL milliseconds have passed since that      *)
(* message; a callback that comes sooner posts nothing.                    *)
C34_Step ==
    \A u \in U :
        CallbackStep(u) /\ Posts(u) /\ units[u].emitted =>
            now - units[u].lastUpdateTime >= PROGRESS_UPDATE_INTERVAL

C34_ProgressIsThrottled == [][C34_Step]_vars

(* A unit has posted a second progress message, an interval or more after *)
(* the start of its stream, and both messages are on their way.            *)
C34_Witness ==
    \E u \in U :
        /\ units[u].sent = 2
        /\ units[u].lastUpdateTime >= units[u].startTime
                                         + PROGRESS_UPDATE_INTERVAL
        /\ units[u].out = <<"progress", "progress">>

(* C36: the rate in a progress message is the rate since the previous      *)
(* progress message: the bytes downloaded since that message over the      *)
(* milliseconds passed since it, in the unit of the message (MB/s, two     *)
(* decimals).                                                              *)
C36_Step ==
    \A u \in U :
        CallbackStep(u) /\ Posts(u) /\ units[u].emitted =>
            units'[u].speed =
                Rate((units'[u].sent - units[u].sent) * PartSize,
                     now - units[u].lastUpdateTime)

C36_RateSinceLastUpdate == [][C36_Step]_vars

(* Unit u handles the control message action in this step.                 *)
Handling(u, action) == ControlStep(u) /\ Head(units[u].inbox) = action

(* Unit u is paused and no progress callback has met the pause.            *)
QuietlyPaused(un) == un.isPaused /\ ~un.held /\ ~un.spinning

(* C35: a pause that is followed by a resume before any progress callback  *)
(* runs is a no-op.  Handling the pause changes nothing of the unit but    *)
(* its paused flag, and handling the resume, no callback having met the    *)
(* pause, changes nothing but to clear the flag again: the unit is then in *)
(* the state it was in before the pause, the byte count and the progress   *)
(* and terminal messages it has posted included, so that what it posts     *)
(* from there on is what it posts in a run with no pause.                  *)
C35_Step ==
    \A u \in U :
        /\ Handling(u, "pause") /\ ~units[u].isPaused =>
               units'[u] = [units[u] EXCEPT !.isPaused = TRUE,
                                            !.inbox = Tail(@)]
        /\ Handling(u, "resume") /\ QuietlyPaused(units[u]) =>
               units'[u] = [units[u] EXCEPT !.isPaused = FALSE,
                                            !.inbox = Tail(@)]

C35_PauseResumeIsNoOp == [][C35_Step]_vars

(* A streaming unit that has reported progress has handled a pause; the    *)
(* resume is next in its inbox and no callback has run since the pause.    *)
C35_Witness ==
    \E u \in LiveUnits :
        /\ units[u].phase = "streaming"
        /\ units[u].emitted
        /\ QuietlyPaused(units[u])
        /\ units[u].inbox = <<"resume">>

====
